---- MODULE Spec2Model ----
(***************************************************************************)
(* Model of se/domain2/engine/engine.py: time rules, event definitions and *)
(* their order, backtest expansion and replay, live event production.      *)
(*                                                                         *)
(* Instants are integers counting seconds.  The trading calendar is an     *)
(* input of the program; the model uses a compressed calendar (one day is  *)
(* DayLen long, every third day is a holiday) so that several sessions fit *)
(* in a short replay window.                                               *)
(***************************************************************************)
EXTENDS Integers, Sequences, FiniteSets, TLC

\* ------------------------------------------------------------------ bounds
\* Number of calendar days a backtest window or a live clock may cover.
NumDays == 3
\* Arrivals the feeds deliver in a run, and on_event calls followed.
MaxArrivals == 1
MaxReceived == 3
\* Failures of the polling thread followed.
MaxPollErrors == 1

\* ---------------------------------------------------------------- calendar
\* Timedelta(minutes=1) in seconds.
Minute == 60

DayLen == 60 * Minute
\* The calendar's "open" is the first minute of the session: one minute
\* after the bell (engine.py line 43).
OpenOff == 11 * Minute
CloseOff == 25 * Minute

IsSession(d) == d % 3 # 2
CalendarDays == {d \in 0..(NumDays + 4) : IsSession(d)}

\* TradingCalendar.opens / TradingCalendar.closes
opens == {d * DayLen + OpenOff : d \in CalendarDays}
closes == {d * DayLen + CloseOff : d \in CalendarDays}

MinOf(S) == CHOOSE x \in S : \A y \in S : x <= y

\* TradingCalendar.next_open(dt): the first open strictly after dt.
next_open(t) == MinOf({o \in opens : o > t})
\* TradingCalendar.next_close(dt): the first close strictly after dt.
next_close(t) == MinOf({c \in closes : c > t})

\* ------------------------------------------------------------------- rules
None == <<>>
Some(x) == <<x>>

\* A Rule is [kind, minute_offset, second_offset]; its _next_time is kept in
\* the state that owns the rule.
MarketOpen(minute_offset, second_offset) ==
    [kind |-> "MarketOpen", minute_offset |-> minute_offset, second_offset |-> second_offset]
MarketClose(minute_offset, second_offset) ==
    [kind |-> "MarketClose", minute_offset |-> minute_offset, second_offset |-> second_offset]

MarketOpen_next_time(rule, current_time) ==
    LET off == (rule.minute_offset - 1) * Minute + rule.second_offset
        dt == next_open(current_time) + off
    IN  IF dt <= current_time
        THEN next_open(next_open(current_time)) + off
        ELSE dt

MarketClose_next_time(rule, current_time) ==
    LET off == rule.minute_offset * Minute + rule.second_offset
        dt == next_close(current_time) + off
    IN  IF dt <= current_time
        THEN next_close(next_close(current_time)) + off
        ELSE dt

next_time(rule, current_time) ==
    IF rule.kind = "MarketOpen"
    THEN MarketOpen_next_time(rule, current_time)
    ELSE MarketClose_next_time(rule, current_time)

\* A mutant of is_match: the cached instant is recomputed on every call.
is_match_recompute(rule, cache, dt) ==
    LET nt == next_time(rule, dt)
    IN  [next |-> Some(nt), match |-> (cache # None /\ dt >= cache[1])]

\* A mutant of is_match: the rule fires only after the cached instant has passed.
is_match_late(rule, cache, dt) ==
    LET c1 == IF cache = None THEN Some(next_time(rule, dt)) ELSE cache
    IN  IF dt > c1[1]
        THEN [next |-> Some(next_time(rule, dt)), match |-> TRUE]
        ELSE [next |-> c1, match |-> FALSE]

\* Rule.is_match: the new _next_time and the value returned.
is_match(rule, cache, dt) ==
    LET c1 == IF cache = None THEN Some(next_time(rule, dt)) ELSE cache
    IN  IF dt >= c1[1]
        THEN [next |-> Some(next_time(rule, dt)), match |-> TRUE]
        ELSE [next |-> c1, match |-> FALSE]

\* ------------------------------------------------------ event definitions
\* BarEventConfig.__init__ (deltas in seconds)
BarEventConfig(market_open_as_tick, market_open_as_tick_delta, bar_open_as_tick, bar_open_as_tick_delta, market_close_as_tick, market_close_as_tick_delta) ==
    [market_open_as_tick |-> market_open_as_tick,
     market_close_as_tick |-> market_close_as_tick,
     bar_open_as_tick |-> bar_open_as_tick,
     market_open_as_tick_delta |-> market_open_as_tick_delta,
     market_close_as_tick_delta |-> market_close_as_tick_delta,
     bar_open_as_tick_delta |-> bar_open_as_tick_delta]

NoBarConfig == BarEventConfig(FALSE, 0, FALSE, 0, FALSE, 0)

\* EventDefinition.__init__.  An EventDefinition is used by reference (it is a
\* dictionary key): the model names each object by an id and Def gives its
\* fields.
EventDefinition(ed_type, time_rule, ts_type_name, event_data_type, bar_config, order) ==
    [ed_type |-> ed_type, time_rule |-> time_rule, ts_type_name |-> ts_type_name,
     event_data_type |-> event_data_type, bar_config |-> bar_config, order |-> order]

\* run_backtest's ts_type_name_for_match
MatchFeed == "ibMinBar"
\* run's feed for the DataPortal
TickFeed == "ibTick"

\* order of the DataPortal's definition
PriceOrder == -100
\* order of the market-matching definition
MatchOrder == -10
\* minute offset of the net-value rule
NetValueOffset == 30
\* the synthetic ticks' delta of the market-matching definition, in seconds
MatchTickDelta == 1

Def(id) ==
    CASE id = "price" ->       \* DataPortal.__init__, backtest
            EventDefinition("DATA", None, MatchFeed, "BAR",
                            BarEventConfig(TRUE, 0, FALSE, 0, FALSE, 0), PriceOrder)
      [] id = "net_value" ->   \* Engine.run_backtest / Engine.run
            EventDefinition("TIME", Some(MarketClose(NetValueOffset, 0)), None, None, None, 0)
      [] id = "match" ->       \* Engine.run_backtest
            EventDefinition("DATA", None, MatchFeed, "BAR",
                            BarEventConfig(FALSE, 0, TRUE, MatchTickDelta, TRUE, MatchTickDelta),
                            MatchOrder)
      \* definitions a strategy registers in do_initialize
      [] id = "strat_bar" ->
            EventDefinition("DATA", None, MatchFeed, "BAR", NoBarConfig, 0)
      [] id = "strat_close" ->
            EventDefinition("TIME", Some(MarketClose(NetValueOffset, 0)), None, None, None, 1)
      [] id = "strat_open" ->
            EventDefinition("TIME", Some(MarketOpen(0, 0)), None, None, None, 0 - 1)
      [] id = "strat_sec" ->
            EventDefinition("TIME", Some(MarketOpen(0, 30)), None, None, None, 0)
      [] id = "strat_settle" ->
            EventDefinition("TIME", Some(MarketClose(NetValueOffset, 0)), None, None, None, 0 - 1)
      [] id = "strat_tick" ->
            EventDefinition("DATA", None, TickFeed, "TICK", None, 0)
      [] id = "strat_tick2" ->
            EventDefinition("DATA", None, TickFeed, "TICK", None, 1)
      [] id = "strat_early" ->
            EventDefinition("DATA", None, MatchFeed, "BAR",
                            BarEventConfig(TRUE, 2, FALSE, 0, TRUE, 3), PriceOrder - 1)
      [] id = "strat_bar_twin" ->   \* another object with the fields of strat_bar
            EventDefinition("DATA", None, MatchFeed, "BAR", NoBarConfig, 0)

DefIds == {"price", "net_value", "match", "strat_bar", "strat_close", "strat_open",
           "strat_sec", "strat_settle", "strat_tick", "strat_tick2", "strat_early",
           "strat_bar_twin"}
TimeDefIds == {id \in DefIds : Def(id).ed_type = "TIME"}

\* The handler registered with each definition.
HandlerOf(id) ==
    CASE id = "price" -> "set_current_price"
      [] id = "net_value" -> "calc_net_value"
      [] id = "match" -> "match"
      [] id = "strat_bar" -> "on_bar"
      [] id = "strat_close" -> "on_close"
      [] id = "strat_open" -> "on_open"
      [] id = "strat_sec" -> "on_sec"
      [] id = "strat_settle" -> "on_settle"
      [] id = "strat_tick" -> "on_tick"
      [] id = "strat_tick2" -> "on_tick2"
      [] id = "strat_early" -> "on_early"
      [] id = "strat_bar_twin" -> "on_bar_twin"

\* A mutant of compareTo: a time-triggered definition sorts first.
compareTo_time_first(self, other) ==
    IF Def(self).ed_type = Def(other).ed_type
    THEN Def(self).order - Def(other).order
    ELSE IF Def(self).ed_type = "TIME" THEN 0 - 1 ELSE 1

\* EventDefinition.compareTo
compareTo(self, other) ==
    IF Def(self).ed_type = Def(other).ed_type
    THEN Def(self).order - Def(other).order
    ELSE IF Def(self).ed_type = "TIME" THEN 1 ELSE 0 - 1

\* ------------------------------------------------------------------ events
\* Event.__init__; seq is the object's identity: its place among the events
\* its producer created.
Event(event_definition, visible_time, data) ==
    [event_definition |-> event_definition, visible_time |-> visible_time,
     data |-> data, seq |-> 0]

EmptyData == [kind |-> "Empty"]
Bar(ts_type_name, visible_time, code, start_time, open_price, close_price) ==
    [kind |-> "Bar", ts_type_name |-> ts_type_name, visible_time |-> visible_time,
     code |-> code, start_time |-> start_time, open_price |-> open_price,
     close_price |-> close_price]
Tick(ts_type_name, visible_time, code, price, size) ==
    [kind |-> "Tick", ts_type_name |-> ts_type_name, visible_time |-> visible_time,
     code |-> code, price |-> price, size |-> size]

\* Price(code, price, time)
Price(code, price, time) == [code |-> code, price |-> price, time |-> time]

\* Event.__lt__
Event_lt(self, other) ==
    IF self.visible_time = other.visible_time
    THEN compareTo(self.event_definition, other.event_definition) < 0
    ELSE self.visible_time < other.visible_time

\* list.sort() with Event.__lt__: a stable sort; each element goes in before
\* the first element it is less than, after all the others.
RECURSIVE InsertSorted(_, _, _)
InsertSorted(sorted, x, k) ==
    IF k = 0 \/ ~Event_lt(x, sorted[k])
    THEN SubSeq(sorted, 1, k) \o <<x>> \o SubSeq(sorted, k + 1, Len(sorted))
    ELSE InsertSorted(sorted, x, k - 1)

RECURSIVE SortFrom(_, _, _)
SortFrom(s, i, acc) ==
    IF i > Len(s) THEN acc
    ELSE SortFrom(s, i + 1, InsertSorted(acc, s[i], Len(acc)))

sorted(s) == SortFrom(s, 1, <<>>)

\* A mutant of add_all: the buffer is extended and not sorted.
add_all_unsorted(events, new_events) == events \o new_events

\* EventLine.add_all
add_all(events, new_events) == sorted(events \o new_events)

\* EventLine.pop_event: the event returned (None when empty) and the buffer left.
pop_event(events) ==
    IF Len(events) > 0
    THEN [event |-> Some(events[1]), events |-> Tail(events)]
    ELSE [event |-> None, events |-> events]

\* ------------------------------------------------------ backtest expansion
\* The rows the time series holds for MatchFeed, in index order (visible_time,
\* code): one-minute bars [visible_time, code, start_time, open, close].  On
\* each of the first two days: the bar that starts at the bell, the bar that
\* ends at the close, and a bar that ends 30 minutes after the close.
BarRow(day, start_minute, n) ==
    [visible_time |-> day * DayLen + (start_minute + 1) * Minute, code |-> "A",
     start_time |-> day * DayLen + start_minute * Minute,
     open |-> 100 + n, close |-> 200 + n]

CandidateRows ==
    <<BarRow(0, 10, 1), BarRow(0, 24, 2), BarRow(0, 54, 3),
      BarRow(1, 10, 4), BarRow(1, 24, 5), BarRow(1, 54, 6)>>

RECURSIVE RowsAt(_, _)
\* The rows of CandidateRows whose index is in S, in index order.
RowsAt(S, i) ==
    IF i > Len(CandidateRows) THEN <<>>
    ELSE (IF i \in S THEN <<CandidateRows[i]>> ELSE <<>>) \o RowsAt(S, i + 1)

InWindow(t, start, end) == t >= start /\ t <= end

\* TimeSeries.history_data(HistoryDataQueryCommand(start, end, codes)): the
\* stored rows of the window.
history_data(rows, start, end) ==
    SelectSeq(rows, LAMBDA r : InWindow(r.visible_time, start, end))

RECURSIVE TimeEventsAt(_, _, _, _, _)
\* history_events, lines 158-162: the time definitions evaluated at minute p.
TimeEventsAt(time_event_definitions, i, p, caches, total_events) ==
    IF i > Len(time_event_definitions)
    THEN [raised |-> FALSE, caches |-> caches, events |-> total_events]
    ELSE LET ed == time_event_definitions[i]
             r == is_match(Def(ed).time_rule[1], caches[ed], p)
         IN  IF Def(ed).time_rule[1].second_offset # 0
             THEN [raised |-> TRUE, caches |-> caches, events |-> total_events]
             ELSE TimeEventsAt(time_event_definitions, i + 1, p,
                               [caches EXCEPT ![ed] = r.next],
                               IF r.match
                               THEN Append(total_events, Event(ed, p, EmptyData))
                               ELSE total_events)

RECURSIVE TimeWalk(_, _, _, _, _)
\* history_events, lines 153-164: the iterations of the while loop for the
\* minutes start + lo .. start + hi, in order (the range is walked as its
\* first half followed by its second half, which keeps the evaluation shallow).
TimeWalk(time_event_definitions, start, lo, hi, acc) ==
    IF acc.raised \/ lo > hi THEN acc
    ELSE IF lo = hi
    THEN TimeEventsAt(time_event_definitions, 1, start + lo * Minute,
                      acc.caches, acc.events)
    ELSE LET mid == (lo + hi) \div 2
         IN  TimeWalk(time_event_definitions, start, mid + 1, hi,
                      TimeWalk(time_event_definitions, start, lo, mid, acc))

\* A mutant of BarRowEvents: the close-price tick is emitted for every bar.
BarRowEvents_close_always(ed, row, market_opens, market_closes) ==
    LET cfg == Def(ed).bar_config
        name == Def(ed).ts_type_name
        bar == Bar(name, row.visible_time, row.code, row.start_time, row.open, row.close)
    IN  <<Event(ed, row.visible_time, bar)>>
        \o (IF cfg.market_open_as_tick /\ ~cfg.bar_open_as_tick
               /\ bar.start_time \in market_opens
            THEN <<Event(ed, bar.start_time + cfg.market_open_as_tick_delta,
                         Tick(name, row.visible_time, row.code, bar.open_price, 0 - 1))>>
            ELSE <<>>)
        \o (IF cfg.bar_open_as_tick
            THEN <<Event(ed, bar.start_time + cfg.bar_open_as_tick_delta,
                         Tick(name, bar.start_time + cfg.bar_open_as_tick_delta,
                              row.code, bar.open_price, 0 - 1))>>
            ELSE <<>>)
        \o (IF cfg.market_close_as_tick
            THEN <<Event(ed, row.visible_time + cfg.market_close_as_tick_delta,
                         Tick(name, row.visible_time, row.code, bar.close_price, 0 - 1))>>
            ELSE <<>>)

\* history_events, lines 181-207: the events of one bar row.
BarRowEvents(ed, row, market_opens, market_closes) ==
    LET cfg == Def(ed).bar_config
        name == Def(ed).ts_type_name
        bar == Bar(name, row.visible_time, row.code, row.start_time, row.open, row.close)
    IN  <<Event(ed, row.visible_time, bar)>>
        \o (IF cfg.market_open_as_tick /\ ~cfg.bar_open_as_tick
               /\ bar.start_time \in market_opens
            THEN <<Event(ed, bar.start_time + cfg.market_open_as_tick_delta,
                         Tick(name, row.visible_time, row.code, bar.open_price, 0 - 1))>>
            ELSE <<>>)
        \o (IF cfg.bar_open_as_tick
            THEN <<Event(ed, bar.start_time + cfg.bar_open_as_tick_delta,
                         Tick(name, bar.start_time + cfg.bar_open_as_tick_delta,
                              row.code, bar.open_price, 0 - 1))>>
            ELSE <<>>)
        \o (IF cfg.market_close_as_tick /\ bar.visible_time \in market_closes
            THEN <<Event(ed, row.visible_time + cfg.market_close_as_tick_delta,
                         Tick(name, row.visible_time, row.code, bar.close_price, 0 - 1))>>
            ELSE <<>>)

\* history_events, lines 179-213: the events of one row of a definition.
RowEvents(ed, row, market_opens, market_closes) ==
    IF Def(ed).event_data_type = "BAR"
    THEN BarRowEvents(ed, row, market_opens, market_closes)
    ELSE IF Def(ed).event_data_type = "TICK"
    THEN <<Event(ed, row.visible_time,
                 Tick(Def(ed).ts_type_name, row.visible_time, row.code, row.price, row.size))>>
    ELSE <<Event(ed, row.visible_time, [kind |-> "Other", row |-> row])>>

RECURSIVE RowsEvents(_, _, _, _, _)
RowsEvents(ed, df, i, market_opens, market_closes) ==
    IF i > Len(df) THEN <<>>
    ELSE RowEvents(ed, df[i], market_opens, market_closes)
         \o RowsEvents(ed, df, i + 1, market_opens, market_closes)

RECURSIVE DataEvents(_, _, _, _, _)
\* history_events, lines 174-213: every data definition queries its feed.
DataEvents(data_event_definitions, i, store, start, end) ==
    IF i > Len(data_event_definitions) THEN <<>>
    ELSE LET ed == data_event_definitions[i]
             market_opens == {t \in {o - Minute : o \in opens} : InWindow(t, start, end)}
             market_closes == {t \in closes : InWindow(t, start, end)}
             df == history_data(store[Def(ed).ts_type_name], start, end)
         IN  RowsEvents(ed, df, 1, market_opens, market_closes)
             \o DataEvents(data_event_definitions, i + 1, store, start, end)

\* The events numbered in the order they were created.
Numbered(events) == [i \in 1..Len(events) |-> [events[i] EXCEPT !.seq = i]]

\* EventProducer.__init__, lines 236-237
time_event_definitions_of(event_definitions) ==
    SelectSeq(event_definitions, LAMBDA ed : Def(ed).ed_type = "TIME")
data_event_definitions_of(event_definitions) ==
    SelectSeq(event_definitions, LAMBDA ed : Def(ed).ed_type = "DATA")

\* EventProducer.history_events: whether it raised, the rules' _next_time it
\* leaves, and the list it returns.
history_events(event_definitions, caches, store, start, end) ==
    LET none == [raised |-> FALSE, caches |-> caches, events |-> <<>>]
        tw == IF Len(time_event_definitions_of(event_definitions)) > 0 /\ start <= end
              THEN TimeWalk(time_event_definitions_of(event_definitions), start,
                            0, (end - start) \div Minute, none)
              ELSE none
    IN  IF tw.raised THEN tw
        ELSE [raised |-> FALSE, caches |-> tw.caches,
              events |-> Numbered(tw.events
                           \o DataEvents(data_event_definitions_of(event_definitions),
                                         1, store, start, end))]

\* ------------------------------------------------------------------ engine
\* A mutant of register_event: a registered definition is registered again.
register_event_overwrites(engine, event_definition, callback) ==
    [raised |-> engine.raised,
     callback_map |-> (event_definition :> callback) @@ engine.callback_map,
     event_definitions |-> Append(engine.event_definitions, event_definition)]

\* Engine.register_event on the pair (callback_map, event_definitions).
register_event(engine, event_definition, callback) ==
    IF event_definition \in DOMAIN engine.callback_map
    THEN [engine EXCEPT !.raised = TRUE]
    ELSE [raised |-> engine.raised,
          callback_map |-> engine.callback_map @@ (event_definition :> callback),
          event_definitions |-> Append(engine.event_definitions, event_definition)]

RECURSIVE register_all(_, _, _)
\* The register_event calls of a strategy's do_initialize, in order; the first
\* that raises ends them.
register_all(engine, ids, i) ==
    IF i > Len(ids) \/ engine.raised THEN engine
    ELSE register_all(register_event(engine, ids[i], HandlerOf(ids[i])), ids, i + 1)

\* Engine.__init__
NewEngine == [raised |-> FALSE, callback_map |-> <<>>, event_definitions |-> <<>>]

\* A mutant of callback_for: the handler registered first is returned.
callback_for_first(callback_map, event_definition) ==
    callback_map["price"]

\* Engine.callback_for
callback_for(callback_map, event_definition) ==
    callback_map[event_definition]

\* ----------------------------------------------------------------- state
VARIABLES
    \* -- one rule driven directly (Rule.is_match called by a client)
    rule,             \* the Rule under call
    rule_next_time,   \* its _next_time
    last_dt,          \* the dt of the latest is_match call (None before any)
    last_result,      \* what that call returned
    prev_next_time,   \* _next_time before that call
    computed_from,    \* the dt handed to the next_time call that set _next_time
    fired_at          \* the dt of the latest call that returned True (None before)

ruleVars == <<rule, rule_next_time, last_dt, last_result, prev_next_time,
              computed_from, fired_at>>

VARIABLES
    \* -- Engine.run_backtest
    pc,                 \* where run_backtest is: "idle", "loop", "done", "failed"
    strategy,           \* the definitions the strategy registers in do_initialize
    start, end,         \* the backtest window
    store,              \* the time series' stored rows, by feed name
    event_definitions,  \* Engine.event_definitions
    callback_map,       \* Engine.callback_map
    next_time_of,       \* _next_time of each time definition's rule
    events,             \* EventLine.events
    event,              \* run_backtest's local `event`
    produced,           \* what history_events returned
    dispatched,         \* the handler calls made so far: [callback, event]
    errors,             \* logging.error calls made by the loop
    saved               \* account.save calls made

btVars == <<pc, strategy, start, end, store, event_definitions, callback_map,
            next_time_of, events, event, produced, dispatched, errors, saved>>

VARIABLES
    \* -- Engine.run, EventProducer.start, TimeEventThread, the feeds' threads
    clock,              \* the wall clock
    ts_type_name_to_ed, \* EventProducer.ts_type_name_to_ed
    subscriptions,      \* ts.subscribe(producer, codes) calls made, by feed name
    dedup,              \* whether a feed delivers once to a listener subscribed twice
    t_pc,               \* TimeEventThread.run: "off", "top", "rules", "handler", "sleep", "dead"
    t_now,              \* its local t
    t_i,                \* the place of its for loop in time_event_conditions
    evaluated,          \* the definitions whose rule this iteration has evaluated
    poll_errors,        \* logging.error calls made by the thread
    feed,               \* each feed thread: what it is delivering
    delivered,          \* the arrivals the feeds have delivered so far
    received            \* the Events Engine.on_event was called with, in call order

liveVars == <<clock, ts_type_name_to_ed, subscriptions, dedup, t_pc, t_now, t_i,
              evaluated, poll_errors, feed, delivered, received>>

VARIABLES
    \* -- AbstractStrategy.get_recent_price_after and the DataPortal it reads
    is_backtest,          \* AbstractStrategy.is_backtest
    mocked_current_price, \* DataPortal.mocked_current_price: instant -> code -> Price
    current_price_map,    \* DataPortal._current_price_map: code -> Price
    codes, g_visible_time, \* the arguments of the call: codes, visible_time
    g_pc,                 \* "off", "idle", "top", "lookup", "check", "sleep", "returned", "raised"
    retry_limit, count,   \* the locals of get_recent_price_after
    g_i,                  \* the place of current_price's for loop in codes
    cp,                   \* what current_price has put together or returned
    res,                  \* what the call returned (None: no result)
    lookups,              \* current_price calls made
    warnings,             \* logging.warning calls made
    seen,                 \* the Prices the map held at some moment of this attempt
    price_arrivals        \* arrivals the DataPortal's feed delivered during the call

priceVars == <<is_backtest, mocked_current_price, current_price_map, codes,
               g_visible_time, g_pc, retry_limit, count, g_i, cp, res, lookups,
               warnings, seen, price_arrivals>>

VARIABLES
    \* -- Engine.register_event, EventLine and MockedEventProducer driven directly
    reg_last,        \* the latest register_event call: arguments, state before, outcome
    line_inserted,   \* the events handed to EventLine.add_all, in insertion order
    line_popped,     \* the events EventLine.pop_event returned, in call order
    line_last_pop,   \* what the latest pop_event call returned (<<>> before any)
    generated,       \* MockedEventProducer.start: mocked_events before the sort
    mocked_events,   \* MockedEventProducer.start: mocked_events after the sort
    m_i,             \* the place of start's for loop in mocked_events
    returned         \* what each EventProducer.history_events call made directly returned

unitVars == <<reg_last, line_inserted, line_popped, line_last_pop, generated,
              mocked_events, m_i, returned>>

vars == <<ruleVars, btVars, liveVars, priceVars, unitVars>>

\* The state of run_backtest while another part of the program is driven.
BacktestIdle ==
    /\ pc = "off" /\ strategy = <<>> /\ start = 0 /\ end = 0 /\ store = <<>>
    /\ event_definitions = <<>> /\ callback_map = <<>>
    /\ next_time_of = [id \in TimeDefIds |-> None]
    /\ events = <<>> /\ event = None /\ produced = <<>> /\ dispatched = <<>>
    /\ errors = 0 /\ saved = 0

\* The thread on which the feed delivers its arrivals.
FeedThreads == {"feed_thread"}
FeedIdle == [pc |-> "idle", data |-> None, remaining |-> 0]

\* The state of the live run while another part of the program is driven.
LiveIdle ==
    /\ clock = 0 /\ ts_type_name_to_ed = <<>> /\ subscriptions = <<>>
    /\ dedup = FALSE /\ t_pc = "off" /\ t_now = 0 /\ t_i = 0 /\ evaluated = {}
    /\ poll_errors = 0 /\ feed = [th \in FeedThreads |-> FeedIdle]
    /\ delivered = <<>> /\ received = <<>>

\* The state of the parts driven directly while another part is driven.
UnitIdle ==
    /\ reg_last = None /\ line_inserted = <<>> /\ line_popped = <<>>
    /\ line_last_pop = <<>> /\ generated = <<>> /\ mocked_events = <<>> /\ m_i = 0
    /\ returned = <<>>

\* The state of the price lookup while another part of the program is driven.
PriceIdle ==
    /\ is_backtest = FALSE /\ mocked_current_price = <<>> /\ current_price_map = <<>>
    /\ codes = <<>> /\ g_visible_time = 0 /\ g_pc = "off" /\ retry_limit = 0
    /\ count = 0 /\ g_i = 0 /\ cp = <<>> /\ res = None /\ lookups = 0
    /\ warnings = 0 /\ seen = {} /\ price_arrivals = 0

\* The state of the rule driven on its own while another part is driven.
RuleIdle ==
    /\ rule = MarketClose(0, 0) /\ rule_next_time = None /\ last_dt = None
    /\ last_result = FALSE /\ prev_next_time = None /\ computed_from = None
    /\ fired_at = None

\* ------------------------------------------------- Rule.is_match on its own
RuleMinuteOffsets == {0 - 70, 0 - 30, 0, 30}
RuleSecondOffsets == {0, 30}
Rules == {MarketOpen(m, s) : m \in RuleMinuteOffsets, s \in RuleSecondOffsets}
           \cup {MarketClose(m, s) : m \in RuleMinuteOffsets, s \in RuleSecondOffsets}

\* The instants is_match is called with: every fifth minute of the calendar
\* days covered.
RuleInstants == {k * 5 * Minute : k \in 0..((NumDays * DayLen) \div (5 * Minute))}

RuleInit ==
    /\ rule \in Rules
    /\ rule_next_time = None
    /\ last_dt = None
    /\ last_result = FALSE
    /\ prev_next_time = None
    /\ computed_from = None
    /\ fired_at = None
    /\ BacktestIdle
    /\ LiveIdle
    /\ PriceIdle
    /\ UnitIdle

CallIsMatch(dt) ==
    LET r == is_match(rule, rule_next_time, dt)
    IN  /\ rule_next_time' = r.next
        /\ last_dt' = Some(dt)
        /\ last_result' = r.match
        /\ prev_next_time' = rule_next_time
        /\ computed_from' = IF r.next # rule_next_time \/ r.match
                            THEN Some(dt) ELSE computed_from
        /\ fired_at' = IF r.match THEN Some(dt) ELSE fired_at
        /\ UNCHANGED <<rule, btVars, liveVars, priceVars, unitVars>>

RuleNext == \E dt \in RuleInstants : CallIsMatch(dt)

SpecRule == RuleInit /\ [][RuleNext]_vars

\* C9: once a rule has a cached next-trigger instant, a call of is_match with
\* an instant earlier than the cached one returns False and leaves the cached
\* instant as it was.
C9_IsMatchIdempotent ==
    (last_dt # None /\ prev_next_time # None /\ last_dt[1] < prev_next_time[1])
        => (last_result = FALSE /\ rule_next_time = prev_next_time)

\* A call after a firing, with an instant not later than the firing's, that
\* found the cached instant ahead of it.
C9_Witness ==
    /\ fired_at # None /\ last_dt # None /\ prev_next_time # None
    /\ last_dt[1] <= fired_at[1]
    /\ last_dt[1] < prev_next_time[1]
    /\ last_result = FALSE

\* C10: the instant next_time returns, and is_match caches, is strictly after
\* the instant it was computed from.
C10_NextTimeStrictlyAfter ==
    computed_from # None => rule_next_time[1] > computed_from[1]

\* -------------------------------------------------------- Engine.run_backtest
\* Most rows a stored time series holds.
MaxBars == 2

\* What a strategy's do_initialize registers.
Strategies == {<<>>, <<"strat_bar">>, <<"strat_close", "strat_bar">>,
               <<"strat_open">>, <<"strat_sec">>, <<"strat_early">>}

\* The windows run_backtest is called with; nothing in it compares start and
\* end, and some of these windows are empty (end before start).
Starts == {0, 30 * Minute, DayLen}
Ends == {d * DayLen + CloseOff : d \in 0..(NumDays - 1)}
          \cup {d * DayLen - Minute : d \in 1..NumDays}

Stores == {[f \in {MatchFeed} |-> RowsAt(S, 1)] :
              S \in {T \in SUBSET (1..Len(CandidateRows)) : Cardinality(T) <= MaxBars}}

BacktestInit ==
    /\ pc = "idle"
    /\ strategy \in Strategies
    /\ start \in Starts
    /\ end \in Ends
    /\ store \in Stores
    /\ event_definitions = <<>> /\ callback_map = <<>>
    /\ next_time_of = [id \in TimeDefIds |-> None]
    /\ events = <<>> /\ event = None /\ produced = <<>> /\ dispatched = <<>>
    /\ errors = 0 /\ saved = 0
    /\ RuleIdle
    /\ LiveIdle
    /\ PriceIdle
    /\ UnitIdle

\* run_backtest, lines 452-453: the account name is taken.
run_backtest_duplicate_account ==
    /\ pc = "idle"
    /\ pc' = "failed"
    /\ UNCHANGED <<strategy, start, end, store, event_definitions, callback_map,
                   next_time_of, events, event, produced, dispatched, errors, saved>>
    /\ UNCHANGED <<ruleVars, liveVars, priceVars, unitVars>>

\* run_backtest, lines 454-474: the registrations, the expansion, the line
\* filled and the first event popped.
run_backtest_begin ==
    /\ pc = "idle"
    /\ LET e1 == register_event(NewEngine, "price", HandlerOf("price"))
           e2 == register_all(e1, strategy, 1)
           e3 == IF e2.raised THEN e2
                 ELSE register_event(e2, "net_value", HandlerOf("net_value"))
           e4 == IF e3.raised THEN e3
                 ELSE register_event(e3, "match", HandlerOf("match"))
           he == history_events(e4.event_definitions, next_time_of, store, start, end)
           line == add_all(<<>>, he.events)
           first == pop_event(line)
       IN  /\ event_definitions' = e4.event_definitions
           /\ callback_map' = e4.callback_map
           /\ IF e4.raised
              THEN /\ pc' = "failed"
                   /\ UNCHANGED <<next_time_of, events, event, produced>>
              ELSE IF he.raised
              THEN /\ pc' = "failed"
                   /\ next_time_of' = he.caches
                   /\ UNCHANGED <<events, event, produced>>
              ELSE /\ pc' = "loop"
                   /\ next_time_of' = he.caches
                   /\ produced' = he.events
                   /\ events' = first.events
                   /\ event' = first.event
    /\ UNCHANGED <<strategy, start, end, store, dispatched, errors, saved>>
    /\ UNCHANGED <<ruleVars, liveVars, priceVars, unitVars>>

\* Whether a handler can raise on an event: set_current_price raises on a
\* payload that is neither Bar nor Tick; match raises on such a payload and
\* calls the account; calc_net_value and a strategy's handler call code of
\* their own.
MayRaise(callback, ev) ==
    callback # "set_current_price" \/ ev.data.kind \notin {"Bar", "Tick"}
MustRaise(callback, ev) ==
    callback \in {"set_current_price", "match"} /\ ev.data.kind \notin {"Bar", "Tick"}

\* A mutant of set_current_price: the Price is stamped as DataPortal.on_data
\* stamps it, with the payload's visible time.
set_current_price_payload_time(map, ev) ==
    IF ev.data.kind = "Bar"
    THEN (ev.data.code :> Price(ev.data.code, ev.data.close_price, ev.data.visible_time)) @@ map
    ELSE IF ev.data.kind = "Tick"
    THEN (ev.data.code :> Price(ev.data.code, ev.data.price, ev.data.visible_time)) @@ map
    ELSE map

\* DataPortal.set_current_price, lines 346-350, on _current_price_map (on
\* another payload it raises and writes nothing).
set_current_price(map, ev) ==
    IF ev.data.kind = "Bar"
    THEN (ev.data.code :> Price(ev.data.code, ev.data.close_price, ev.visible_time)) @@ map
    ELSE IF ev.data.kind = "Tick"
    THEN (ev.data.code :> Price(ev.data.code, ev.data.price, ev.visible_time)) @@ map
    ELSE map

\* What a handler call of the backtest loop does to the DataPortal.
price_map_after(map, callback, ev) ==
    IF callback = "set_current_price" THEN set_current_price(map, ev) ELSE map

\* The price lookup's state but the DataPortal's price map.
priceCallFrame == <<is_backtest, mocked_current_price, codes, g_visible_time, g_pc,
                    retry_limit, count, g_i, cp, res, lookups, warnings, seen,
                    price_arrivals>>

\* run_backtest, lines 476-483, the handler returning; callback_for raises
\* KeyError outside the try when the definition has no handler.
handler_returns ==
    /\ pc = "loop" /\ event # None
    /\ IF event[1].event_definition \notin DOMAIN callback_map
       THEN /\ pc' = "failed"
            /\ UNCHANGED <<dispatched, events, event, current_price_map>>
       ELSE LET callback == callback_for(callback_map, event[1].event_definition)
                next == pop_event(events)
            IN  /\ ~MustRaise(callback, event[1])
                /\ dispatched' = Append(dispatched,
                       [callback |-> callback, event |-> event[1]])
                /\ current_price_map' = price_map_after(current_price_map, callback, event[1])
                /\ events' = next.events
                /\ event' = next.event
                /\ pc' = pc
    /\ UNCHANGED <<strategy, start, end, store, event_definitions, callback_map,
                   next_time_of, produced, errors, saved>>
    /\ UNCHANGED <<ruleVars, liveVars, priceCallFrame, unitVars>>

\* A mutant of handler_raises: the exception leaves run_backtest.
handler_raises_aborts ==
    /\ pc = "loop" /\ event # None
    /\ event[1].event_definition \in DOMAIN callback_map
    /\ LET callback == callback_for(callback_map, event[1].event_definition)
       IN  /\ MayRaise(callback, event[1])
           /\ dispatched' = Append(dispatched,
                  [callback |-> callback, event |-> event[1]])
           /\ pc' = "failed"
    /\ UNCHANGED <<strategy, start, end, store, event_definitions, callback_map,
                   next_time_of, produced, errors, saved, events, event>>
    /\ UNCHANGED <<ruleVars, liveVars, priceVars, unitVars>>

\* run_backtest, lines 476-483, the handler raising: caught and logged.
handler_raises ==
    /\ pc = "loop" /\ event # None
    /\ event[1].event_definition \in DOMAIN callback_map
    /\ LET callback == callback_for(callback_map, event[1].event_definition)
           next == pop_event(events)
       IN  /\ MayRaise(callback, event[1])
           /\ dispatched' = Append(dispatched,
                  [callback |-> callback, event |-> event[1]])
           /\ errors' = errors + 1
           /\ events' = next.events
           /\ event' = next.event
    /\ UNCHANGED <<pc, strategy, start, end, store, event_definitions, callback_map,
                   next_time_of, produced, saved>>
    /\ UNCHANGED <<ruleVars, liveVars, priceVars, unitVars>>

\* run_backtest, lines 475 and 485-486: the line is empty, the account is saved.
run_backtest_end ==
    /\ pc = "loop" /\ event = None
    /\ saved' = saved + 1
    /\ pc' = "done"
    /\ UNCHANGED <<strategy, start, end, store, event_definitions, callback_map,
                   next_time_of, events, event, produced, dispatched, errors>>
    /\ UNCHANGED <<ruleVars, liveVars, priceVars, unitVars>>

BacktestNext ==
    \/ run_backtest_duplicate_account
    \/ run_backtest_begin
    \/ handler_returns
    \/ handler_raises
    \/ run_backtest_end

SpecBacktest == BacktestInit /\ [][BacktestNext]_vars

\* run_backtest runs on one thread, which takes its next step while it has one.
SpecBacktestFair == SpecBacktest /\ WF_vars(BacktestNext)

\* ---- properties of run_backtest
KindOf(ev) == Def(ev.event_definition).ed_type
OrderOf(ev) == Def(ev.event_definition).order

\* e1 has to be dispatched before e2.
MustPrecede(e1, e2) ==
    \/ e1.visible_time < e2.visible_time
    \/ /\ e1.visible_time = e2.visible_time
       /\ KindOf(e1) = "DATA" /\ KindOf(e2) = "TIME"
    \/ /\ e1.visible_time = e2.visible_time
       /\ KindOf(e1) = KindOf(e2)
       /\ OrderOf(e1) < OrderOf(e2)

\* C1: of two events dispatched by run_backtest, the one with the smaller
\* visible time was dispatched first; with equal visible times a data-triggered
\* one before a time-triggered one; with equal visible times and the same
\* trigger kind the one with the smaller tie-break order first.
C1_BacktestDispatchOrder ==
    \A i, j \in 1..Len(dispatched) :
        i < j => ~MustPrecede(dispatched[j].event, dispatched[i].event)

\* A finished run that dispatched, at one visible time, a data event before a
\* time event, two time events of different orders and two data events of
\* different orders.
C1_Witness ==
    /\ pc = "done"
    /\ \E i, j \in 1..Len(dispatched) :
          /\ i < j
          /\ dispatched[i].event.visible_time = dispatched[j].event.visible_time
          /\ KindOf(dispatched[i].event) = "DATA" /\ KindOf(dispatched[j].event) = "TIME"
    /\ \E i, j \in 1..Len(dispatched) :
          /\ i < j
          /\ dispatched[i].event.visible_time = dispatched[j].event.visible_time
          /\ KindOf(dispatched[i].event) = "TIME" /\ KindOf(dispatched[j].event) = "TIME"
          /\ OrderOf(dispatched[i].event) < OrderOf(dispatched[j].event)
    /\ \E i, j \in 1..Len(dispatched) :
          /\ i < j
          /\ dispatched[i].event.visible_time = dispatched[j].event.visible_time
          /\ KindOf(dispatched[i].event) = "DATA" /\ KindOf(dispatched[j].event) = "DATA"
          /\ OrderOf(dispatched[i].event) < OrderOf(dispatched[j].event)
    /\ \E i, j \in 1..Len(dispatched) :
          dispatched[i].event.visible_time < dispatched[j].event.visible_time

\* C2: every handler call of run_backtest is made with an event that
\* history_events returned, on the handler registered for that event's
\* definition, no event is handed over twice, and when the run is done every
\* event history_events returned has been handed over.
C2_BacktestExactlyOnce ==
    /\ \A i \in 1..Len(dispatched) :
          LET d == dispatched[i]
          IN  /\ d.event.seq \in 1..Len(produced)
              /\ produced[d.event.seq] = d.event
              /\ d.callback = HandlerOf(d.event.event_definition)
    /\ \A i, j \in 1..Len(dispatched) :
          i # j => dispatched[i].event.seq # dispatched[j].event.seq
    /\ pc = "done" =>
          \A k \in 1..Len(produced) :
              \E i \in 1..Len(dispatched) : dispatched[i].event.seq = k

\* A finished run of at least five events that reached three different handlers.
C2_Witness ==
    /\ pc = "done"
    /\ Len(produced) >= 5
    /\ Cardinality({dispatched[i].callback : i \in 1..Len(dispatched)}) >= 3

C3_Safety ==
    /\ pc = "done" =>
          /\ saved = 1
          /\ events = <<>> /\ event = None
          /\ Len(dispatched) = Len(produced)
    /\ pc # "done" => saved = 0
    /\ pc = "failed" => dispatched = <<>>
    /\ errors <= Len(dispatched)

\* C3: a handler that raises does not end run_backtest: the run fails only
\* before its loop, every event of the line is dispatched, the loop ends, and
\* the account is saved once, after the last event.
C3_BacktestSurvivesHandlerErrors ==
    /\ []C3_Safety
    /\ (pc = "loop") ~> (pc = "done")

\* A finished run in which every handler call raised, there were several, and
\* the account was saved.
C3_Witness ==
    /\ pc = "done"
    /\ errors >= 2
    /\ errors = Len(produced)
    /\ Len(dispatched) = Len(produced)
    /\ saved = 1

\* The calendar days that lie in the window from their first minute to their
\* last, and trade.
WholeDays ==
    {d \in 0..NumDays : /\ IsSession(d)
                        /\ d * DayLen >= start
                        /\ (d + 1) * DayLen - Minute <= end}
NetValueTimes ==
    {dispatched[i].event.visible_time :
        i \in {k \in 1..Len(dispatched) : dispatched[k].event.event_definition = "net_value"}}
IsNetValue(d) == d.event.event_definition = "net_value"
IsBarEvent(d) == d.event.data.kind = "Bar"

\* C4: a finished run over a window dispatched, for every trading day that
\* lies whole in the window, one net-value event, at 30 minutes after that
\* day's close, and no other net-value event in that day; net-value events
\* and bar events were dispatched in increasing visible time, a bar event
\* before a net-value event of the same visible time.
C4_NetValueOncePerDay ==
    /\ pc = "done" =>
          /\ \A d \in WholeDays :
                /\ d * DayLen + CloseOff + NetValueOffset * Minute \in NetValueTimes
                /\ \A i \in 1..Len(dispatched) :
                      (/\ IsNetValue(dispatched[i])
                       /\ dispatched[i].event.visible_time \div DayLen = d)
                      => dispatched[i].event.visible_time
                            = d * DayLen + CloseOff + NetValueOffset * Minute
          /\ \A i, j \in 1..Len(dispatched) :
                (i # j /\ IsNetValue(dispatched[i]) /\ IsNetValue(dispatched[j]))
                => dispatched[i].event.visible_time # dispatched[j].event.visible_time
    /\ \A i, j \in 1..Len(dispatched) :
          (/\ i < j
           /\ IsNetValue(dispatched[i]) \/ IsBarEvent(dispatched[i])
           /\ IsNetValue(dispatched[j]) \/ IsBarEvent(dispatched[j]))
          => /\ dispatched[i].event.visible_time <= dispatched[j].event.visible_time
             /\ (dispatched[i].event.visible_time = dispatched[j].event.visible_time)
                   => ~(IsNetValue(dispatched[i]) /\ IsBarEvent(dispatched[j]))

\* A finished run over two whole trading days, with a bar feed without
\* synthetic ticks, in which a bar event of that feed and a net-value event
\* had the same visible time.
C4_Witness ==
    /\ pc = "done"
    /\ Cardinality(WholeDays) >= 2
    /\ Cardinality(NetValueTimes) >= 2
    /\ \E i, j \in 1..Len(dispatched) :
          /\ i < j
          /\ dispatched[i].event.event_definition = "strat_bar"
          /\ IsBarEvent(dispatched[i])
          /\ IsNetValue(dispatched[j])
          /\ dispatched[i].event.visible_time = dispatched[j].event.visible_time

\* ------------------------------------------------------------ Engine.run, live
\* What a strategy's do_initialize registers in a live run.
LiveStrategies == {<<"strat_tick">>, <<"strat_settle", "strat_tick">>,
                   <<"strat_tick", "strat_tick2">>}

\* The instants the wall clock is read at: before the first close, around 30
\* minutes after it, and after the next close.
LiveInstants == {20 * Minute, 54 * Minute, 55 * Minute, 56 * Minute, 90 * Minute}

RECURSIVE LastWithFeed(_, _, _)
\* The last definition at or before place i that names the feed.
LastWithFeed(eds, name, i) ==
    IF Def(eds[i]).ed_type = "DATA" /\ Def(eds[i]).ts_type_name = name
    THEN eds[i]
    ELSE LastWithFeed(eds, name, i - 1)

FeedsOf(eds) ==
    {Def(eds[i]).ts_type_name :
        i \in {k \in 1..Len(eds) : Def(eds[k]).ed_type = "DATA"}}

\* EventProducer.__init__, lines 238-239: a dict comprehension, in which a
\* later definition of a feed name replaces an earlier one.
ts_type_name_to_ed_of(eds) ==
    [name \in FeedsOf(eds) |-> LastWithFeed(eds, name, Len(eds))]

\* EventProducer.start, lines 222-229: one subscribe call for each data
\* definition.
subscriptions_of(eds) ==
    [name \in FeedsOf(eds) |->
        Cardinality({k \in 1..Len(eds) : /\ Def(eds[k]).ed_type = "DATA"
                                         /\ Def(eds[k]).ts_type_name = name})]

LiveInit ==
    /\ pc = "idle"
    /\ strategy \in LiveStrategies
    /\ dedup \in BOOLEAN
    /\ clock = 20 * Minute
    /\ start = 0 /\ end = 0 /\ store = <<>>
    /\ event_definitions = <<>> /\ callback_map = <<>>
    /\ next_time_of = [id \in TimeDefIds |-> None]
    /\ events = <<>> /\ event = None /\ produced = <<>> /\ dispatched = <<>>
    /\ errors = 0 /\ saved = 0
    /\ ts_type_name_to_ed = <<>> /\ subscriptions = <<>>
    /\ t_pc = "off" /\ t_now = 0 /\ t_i = 0 /\ evaluated = {}
    /\ poll_errors = 0 /\ feed = [th \in FeedThreads |-> FeedIdle]
    /\ delivered = <<>> /\ received = <<>>
    /\ RuleIdle
    /\ PriceIdle
    /\ UnitIdle

runOnly == <<start, end, store, events, event, produced, dispatched, errors, saved>>

\* Engine.run without mocked events, lines 491-505, with EventProducer.__init__
\* and EventProducer.start: the thread is started, the feeds are subscribed.
run ==
    /\ pc = "idle"
    /\ LET e1 == register_event(NewEngine, "net_value", HandlerOf("net_value"))
           e2 == register_all(e1, strategy, 1)
       IN  /\ event_definitions' = e2.event_definitions
           /\ callback_map' = e2.callback_map
           /\ IF e2.raised
              THEN /\ pc' = "failed"
                   /\ UNCHANGED <<ts_type_name_to_ed, subscriptions, t_pc>>
              ELSE /\ pc' = "live"
                   /\ ts_type_name_to_ed' = ts_type_name_to_ed_of(e2.event_definitions)
                   /\ subscriptions' = subscriptions_of(e2.event_definitions)
                   /\ t_pc' = "top"
    /\ UNCHANGED <<strategy, next_time_of, runOnly, ruleVars, priceVars, unitVars>>
    /\ UNCHANGED <<clock, dedup, t_now, t_i, evaluated, poll_errors, feed,
                   delivered, received>>

\* Time passes.
tick ==
    /\ pc = "live"
    /\ \E t \in LiveInstants : t > clock /\ clock' = t
    /\ UNCHANGED <<pc, strategy, event_definitions, callback_map, next_time_of,
                   runOnly, ruleVars, priceVars, unitVars>>
    /\ UNCHANGED <<ts_type_name_to_ed, subscriptions, dedup, t_pc, t_now, t_i,
                   evaluated, poll_errors, feed, delivered, received>>

\* TimeEventThread.time_event_conditions
time_event_conditions == time_event_definitions_of(event_definitions)

pollFrame == <<pc, strategy, event_definitions, callback_map, runOnly, ruleVars, priceVars, unitVars,
               clock, ts_type_name_to_ed, subscriptions, dedup, feed, delivered>>

\* TimeEventThread.run, lines 282-284: an iteration starts and reads the clock.
poll_begin ==
    /\ t_pc = "top"
    /\ t_now' = clock
    /\ t_i' = 1
    /\ evaluated' = {}
    /\ t_pc' = "rules"
    /\ UNCHANGED <<pollFrame, next_time_of, poll_errors, received>>

\* TimeEventThread.run, lines 285-288: the next rule is evaluated; when it
\* matches, on_event is called with its Event and the handler is entered.
poll_rule ==
    /\ t_pc = "rules" /\ t_i <= Len(time_event_conditions)
    /\ LET ed == time_event_conditions[t_i]
           r == is_match(Def(ed).time_rule[1], next_time_of[ed], t_now)
       IN  /\ next_time_of' = [next_time_of EXCEPT ![ed] = r.next]
           /\ evaluated' = evaluated \cup {ed}
           /\ IF r.match
              THEN /\ Len(received) < MaxReceived
                   /\ received' = Append(received,
                          [Event(ed, t_now, EmptyData) EXCEPT !.seq = Len(received) + 1])
                   /\ t_pc' = "handler"
                   /\ t_i' = t_i
              ELSE /\ t_i' = t_i + 1
                   /\ UNCHANGED <<received, t_pc>>
    /\ UNCHANGED <<pollFrame, t_now, poll_errors>>

\* A mutant of poll_raised: the exception ends the thread.
poll_raised_dies ==
    /\ poll_errors' = poll_errors + 1
    /\ t_pc' = "dead"

\* TimeEventThread.run, lines 290-292: the exception is logged and the while
\* loop goes on, without sleeping.
poll_raised ==
    /\ poll_errors' = poll_errors + 1
    /\ t_pc' = "top"

\* TimeEventThread.run, line 286 raising: the calendar lookup of next_time
\* fails, either in the first assignment of is_match (line 25) or in the
\* second (line 27, the first having been made).
poll_rule_raises ==
    /\ t_pc = "rules" /\ t_i <= Len(time_event_conditions)
    /\ poll_errors < MaxPollErrors
    /\ LET ed == time_event_conditions[t_i]
           cache == next_time_of[ed]
           c1 == IF cache = None
                 THEN Some(next_time(Def(ed).time_rule[1], t_now)) ELSE cache
       IN  \/ /\ cache = None
              /\ UNCHANGED next_time_of
           \/ /\ t_now >= c1[1]
              /\ next_time_of' = [next_time_of EXCEPT ![ed] = c1]
    /\ poll_raised
    /\ UNCHANGED <<pollFrame, t_now, t_i, evaluated, received>>

\* The handler called by the thread returns: the for loop goes on.
poll_handler_returns ==
    /\ t_pc = "handler"
    /\ t_i' = t_i + 1
    /\ t_pc' = "rules"
    /\ UNCHANGED <<pollFrame, next_time_of, t_now, evaluated, poll_errors, received>>

\* The handler called by the thread raises.
poll_handler_raises ==
    /\ t_pc = "handler"
    /\ poll_errors < MaxPollErrors
    /\ poll_raised
    /\ UNCHANGED <<pollFrame, next_time_of, t_now, t_i, evaluated, received>>

\* TimeEventThread.run, line 289: the for loop is over, the thread sleeps.
poll_sleep ==
    /\ t_pc = "rules" /\ t_i > Len(time_event_conditions)
    /\ t_pc' = "sleep"
    /\ UNCHANGED <<pollFrame, next_time_of, t_now, t_i, evaluated, poll_errors, received>>

\* time.sleep(1) returns: time has passed.
poll_wake ==
    /\ t_pc = "sleep" /\ clock > t_now
    /\ t_pc' = "top"
    /\ UNCHANGED <<pollFrame, next_time_of, t_now, t_i, evaluated, poll_errors, received>>

feedFrame == <<pc, strategy, event_definitions, callback_map, next_time_of, runOnly,
               ruleVars, priceVars, unitVars, clock, ts_type_name_to_ed, subscriptions, dedup, t_pc,
               t_now, t_i, evaluated, poll_errors>>

\* EventProducer.on_data followed by Engine.on_event, lines 143-147 and
\* 438-439: the Event the subscriber is called with.
on_data(data) ==
    [Event(ts_type_name_to_ed[data.ts_type_name], data.visible_time, data)
        EXCEPT !.seq = Len(received) + 1]

\* A feed delivers an arrival on one of its threads: on_data is called, and
\* through it the handler.  A producer subscribed several times to the feed is
\* called once for each subscription unless the feed keeps one listener.
feed_arrival(th, name, visible_time) ==
    /\ pc = "live" /\ feed[th].pc = "idle"
    /\ name \in DOMAIN subscriptions
    /\ Len(delivered) < MaxArrivals
    /\ LET data == Tick(name, visible_time, "A", 100 + Len(delivered), 1)
           calls == IF dedup THEN 1 ELSE subscriptions[name]
       IN  /\ Len(received) + calls <= MaxReceived
           /\ delivered' = Append(delivered, data)
           /\ received' = Append(received, on_data(data))
           /\ feed' = [feed EXCEPT ![th] =
                          [pc |-> "handler", data |-> Some(data), remaining |-> calls - 1]]
    /\ UNCHANGED feedFrame

\* The handler called by a feed thread ends; the arrival is delivered again
\* when a subscription is left.
feed_handler_ends(th) ==
    /\ feed[th].pc = "handler"
    /\ IF feed[th].remaining > 0
       THEN /\ received' = Append(received, on_data(feed[th].data[1]))
            /\ feed' = [feed EXCEPT ![th].remaining = @ - 1]
       ELSE /\ feed' = [feed EXCEPT ![th] = FeedIdle]
            /\ UNCHANGED received
    /\ UNCHANGED <<feedFrame, delivered>>

LiveNext ==
    \/ run
    \/ tick
    \/ poll_begin
    \/ poll_rule
    \/ poll_rule_raises
    \/ poll_handler_returns
    \/ poll_handler_raises
    \/ poll_sleep
    \/ poll_wake
    \/ \E th \in FeedThreads, name \in {TickFeed}, lag \in {0, Minute} :
          feed_arrival(th, name, clock - lag)
    \/ \E th \in FeedThreads : feed_handler_ends(th)

SpecLive == LiveInit /\ [][LiveNext]_vars

\* The steps of the polling thread.  The thread is a started OS thread that
\* blocks nowhere but in time.sleep(1), so it goes on taking steps.
TimeEventThread_run ==
    \/ poll_begin
    \/ poll_rule
    \/ poll_rule_raises
    \/ poll_handler_returns
    \/ poll_handler_raises
    \/ poll_sleep
    \/ poll_wake

SpecLiveFair == SpecLive /\ WF_vars(TimeEventThread_run)

\* ---- properties of the live run
\* C5: Engine.on_event receives the events in the order a backtest dispatches
\* them: no event was received after one it has to precede (smaller visible
\* time; data before time on equal visible time; smaller order within a kind).
C5_LiveOrderAsBacktest ==
    \A i, j \in 1..Len(received) :
        i < j => ~MustPrecede(received[j], received[i])

\* The data definitions registered with the engine.
RegisteredData ==
    {event_definitions[k] :
        k \in {n \in 1..Len(event_definitions) :
                  Def(event_definitions[n]).ed_type = "DATA"}}
BeingDelivered(data) == \E th \in FeedThreads : feed[th].data = Some(data)

\* C6: for every registered data definition d and every arrival its feed has
\* delivered, on_event was called exactly once with an Event of d that carries
\* the arrival and the arrival's visible time.
C6_LiveOncePerDefinition ==
    \A d \in RegisteredData : \A k \in 1..Len(delivered) :
        (/\ pc = "live"
         /\ delivered[k].ts_type_name = Def(d).ts_type_name
         /\ ~BeingDelivered(delivered[k]))
        => Cardinality({i \in 1..Len(received) :
                           /\ received[i].event_definition = d
                           /\ received[i].data = delivered[k]
                           /\ received[i].visible_time = delivered[k].visible_time}) = 1

\* The threads that are inside a handler called through Engine.on_event.
InHandler ==
    (IF t_pc = "handler" THEN {"time_event_thread"} ELSE {})
        \cup {th \in FeedThreads : feed[th].pc = "handler"}

\* C7: at no time are two handler invocations in progress.
C7_HandlersSerialized == Cardinality(InHandler) <= 1

\* At no time has a failure ended the polling thread, and an iteration that
\* reaches the sleep has evaluated the rule of every time definition.
C8_Safety ==
    /\ t_pc # "dead"
    /\ pc = "live" => t_pc \in {"top", "rules", "handler", "sleep"}
    /\ t_pc = "sleep" =>
          evaluated = {time_event_conditions[k] : k \in 1..Len(time_event_conditions)}
    /\ t_pc = "rules" =>
          evaluated = {time_event_conditions[k] : k \in 1..(t_i - 1)}

\* C8: the polling thread is never ended by a failure: a failure is logged and
\* puts the thread at the top of its loop, and from there a later iteration
\* evaluates every time rule of the thread and reaches the sleep (unless the
\* bound on the received events stops the run first).
C8_PollingSurvivesFailures ==
    /\ []C8_Safety
    /\ [][poll_errors' # poll_errors => t_pc' = "top"]_vars
    /\ (poll_errors >= 1 /\ t_pc = "top")
          ~> (t_pc = "sleep" \/ Len(received) = MaxReceived)

\* After a failure, an iteration over two rules that reached the sleep.
C8_Witness ==
    /\ poll_errors >= 1
    /\ t_pc = "sleep"
    /\ Len(time_event_conditions) >= 2
    /\ evaluated = {time_event_conditions[k] : k \in 1..Len(time_event_conditions)}

\* ---- properties of the backtest expansion
\* The bar-typed data definitions registered, and the rows the historical
\* query returns for a definition's feed.
BarDefinitions ==
    {event_definitions[k] :
        k \in {n \in 1..Len(event_definitions) :
                  /\ Def(event_definitions[n]).ed_type = "DATA"
                  /\ Def(event_definitions[n]).event_data_type = "BAR"}}
QueriedRows(ed) ==
    {r \in {store[Def(ed).ts_type_name][k] : k \in 1..Len(store[Def(ed).ts_type_name])} :
        r.visible_time >= start /\ r.visible_time <= end}
\* The market-open and market-close instants of the window.
WindowOpens == {t \in {o - Minute : o \in opens} : t >= start /\ t <= end}
WindowCloses == {t \in closes : t >= start /\ t <= end}

\* The produced events of a definition that come from a row: its bar events,
\* its ticks of the open price, its ticks of the close price.
BarEventsOf(ed, r) ==
    {k \in 1..Len(produced) : /\ produced[k].event_definition = ed
                              /\ produced[k].data.kind = "Bar"
                              /\ produced[k].data.code = r.code
                              /\ produced[k].data.visible_time = r.visible_time}
OpenTicksOf(ed, r) ==
    {k \in 1..Len(produced) : /\ produced[k].event_definition = ed
                              /\ produced[k].data.kind = "Tick"
                              /\ produced[k].data.code = r.code
                              /\ produced[k].data.price = r.open}
CloseTicksOf(ed, r) ==
    {k \in 1..Len(produced) : /\ produced[k].event_definition = ed
                              /\ produced[k].data.kind = "Tick"
                              /\ produced[k].data.code = r.code
                              /\ produced[k].data.price = r.close}
EventsOfDefinition(ed) ==
    {k \in 1..Len(produced) : produced[k].event_definition = ed}

\* C13: the expansion of a bar-typed definition holds, for every row of the
\* query, one bar event at the row's visible time; one open-price tick at bar
\* start + delta when bar_open_as_tick is set, or when market_open_as_tick is
\* set and the bar starts at a market open of the window, and none otherwise;
\* one close-price tick at visible time + delta when market_close_as_tick is
\* set and the bar's visible time is a market close of the window, and none
\* otherwise; and nothing else.
C13_BarExpansion ==
    pc \in {"loop", "done"} =>
      \A ed \in BarDefinitions :
        LET cfg == Def(ed).bar_config
        IN  /\ \A r \in QueriedRows(ed) :
                  /\ Cardinality(BarEventsOf(ed, r)) = 1
                  /\ \A k \in BarEventsOf(ed, r) :
                        produced[k].visible_time = r.visible_time
                  /\ IF cfg.bar_open_as_tick
                     THEN /\ Cardinality(OpenTicksOf(ed, r)) = 1
                          /\ \A k \in OpenTicksOf(ed, r) :
                                produced[k].visible_time
                                   = r.start_time + cfg.bar_open_as_tick_delta
                     ELSE IF cfg.market_open_as_tick /\ r.start_time \in WindowOpens
                     THEN /\ Cardinality(OpenTicksOf(ed, r)) = 1
                          /\ \A k \in OpenTicksOf(ed, r) :
                                produced[k].visible_time
                                   = r.start_time + cfg.market_open_as_tick_delta
                     ELSE OpenTicksOf(ed, r) = {}
                  /\ IF cfg.market_close_as_tick /\ r.visible_time \in WindowCloses
                     THEN /\ Cardinality(CloseTicksOf(ed, r)) = 1
                          /\ \A k \in CloseTicksOf(ed, r) :
                                produced[k].visible_time
                                   = r.visible_time + cfg.market_close_as_tick_delta
                     ELSE CloseTicksOf(ed, r) = {}
            /\ EventsOfDefinition(ed) =
                  UNION {BarEventsOf(ed, r) \cup OpenTicksOf(ed, r) \cup CloseTicksOf(ed, r) :
                            r \in QueriedRows(ed)}

\* An expansion with a definition that has market_open_as_tick and
\* market_close_as_tick set, over a bar that starts at a market open and a bar
\* that ends at a market close, both with synthetic ticks of the match
\* definition, and the first without a close-price tick.
C13_Witness ==
    /\ pc = "done"
    /\ "strat_early" \in BarDefinitions
    /\ \E r1, r2 \in QueriedRows("strat_early") :
          /\ OpenTicksOf("strat_early", r1) # {} /\ CloseTicksOf("strat_early", r1) = {}
          /\ OpenTicksOf("strat_early", r2) = {} /\ CloseTicksOf("strat_early", r2) # {}
          /\ OpenTicksOf("match", r1) # {} /\ CloseTicksOf("match", r1) = {}
          /\ CloseTicksOf("match", r2) # {}

\* What a handler observes of an event: visible time, instrument code, payload
\* kind and price (a bar's close, a tick's price).
Observation(ev) ==
    <<ev.visible_time, ev.data.code, ev.data.kind,
      IF ev.data.kind = "Bar" THEN ev.data.close_price ELSE ev.data.price>>
RECURSIVE ObservedFrom(_, _)
\* The observations of the calls of a handler, from call i on, in call order.
ObservedFrom(callback, i) ==
    IF i > Len(dispatched) THEN <<>>
    ELSE (IF dispatched[i].callback = callback
          THEN <<Observation(dispatched[i].event)>> ELSE <<>>)
         \o ObservedFrom(callback, i + 1)

\* C17: in a finished backtest run, DataPortal.set_current_price was called
\* with the same sequence of (visible time, code, payload kind, price) as
\* Engine.match.
C17_PriceSeesMatchStream ==
    pc = "done" => ObservedFrom("set_current_price", 1) = ObservedFrom("match", 1)

\* C19: in a backtest run, no data-triggered event of another definition is
\* dispatched before the event of the DataPortal's definition that has the
\* same visible time.
C19_PriceUpdatedFirst ==
    \A i, j \in 1..Len(dispatched) :
        (/\ i < j
         /\ dispatched[j].event.event_definition = "price"
         /\ KindOf(dispatched[i].event) = "DATA"
         /\ dispatched[i].event.visible_time = dispatched[j].event.visible_time)
        => dispatched[i].event.event_definition = "price"

\* A registered time definition whose rule has a second offset.
HasSecondOffset ==
    \E k \in 1..Len(event_definitions) :
        /\ Def(event_definitions[k]).ed_type = "TIME"
        /\ Def(event_definitions[k]).time_rule[1].second_offset # 0

\* C16: over any window, the expansion fails and returns no list when a
\* registered time definition has a rule with a second offset; it is accepted
\* when the rules have minute offsets only, whatever the deltas of the data
\* definitions' synthetic ticks.
C16_SecondOffsetRejected ==
    /\ (pc # "idle" /\ HasSecondOffset)
          => (pc = "failed" /\ produced = <<>> /\ events = <<>> /\ dispatched = <<>>)
    /\ (pc = "failed" /\ Len(event_definitions) = Len(strategy) + 3)
          => HasSecondOffset

\* ------------------------------------- AbstractStrategy.get_recent_price_after
\* Arrivals the DataPortal's feed delivers while a call is in progress.
MaxPriceArrivals == 2

\* retry_limit of get_recent_price_after: live and live-test, backtest
RetryLimitLive == 20
RetryLimitBacktest == 1

\* The instant a call asks prices after; a Price is observed before it, at it
\* or after it.
AskedTime == 5 * Minute
StaleTime == AskedTime - Minute

Codes == {"A", "B"}
\* The code lists a call is made with.
CodeLists == {<<>>, <<"A">>, <<"A", "B">>, <<"B", "A">>, <<"A", "A">>}

\* The price maps a call can find: each code unknown, stale or fresh.
InitialPriceMaps ==
    UNION {[S -> {Price("A", 10, StaleTime), Price("A", 11, AskedTime),
                  Price("B", 12, StaleTime), Price("B", 13, AskedTime + Minute)}] :
              S \in SUBSET Codes}
PriceMaps == {m \in InitialPriceMaps : \A c \in DOMAIN m : m[c].code = c}

\* The mock price tables of a live-test run: both codes fresh at the asked
\* instant; only "A" at the asked instant; nothing at the asked instant; "A"
\* stale at the asked instant.
MockTables ==
    {(AskedTime :> ("A" :> Price("A", 10, AskedTime) @@ "B" :> Price("B", 12, AskedTime))),
     (AskedTime :> ("A" :> Price("A", 10, AskedTime))),
     (StaleTime :> ("A" :> Price("A", 10, StaleTime) @@ "B" :> Price("B", 12, StaleTime))),
     (AskedTime :> ("A" :> Price("A", 10, StaleTime) @@ "B" :> Price("B", 12, AskedTime)))}

\* What the DataPortal's feed delivers: ticks and bars, fresh and stale.
PriceArrivals ==
    {Tick(TickFeed, AskedTime, "A", 20, 1), Tick(TickFeed, StaleTime, "A", 21, 1),
     Tick(TickFeed, AskedTime + Minute, "B", 22, 1),
     Bar(TickFeed, AskedTime, "B", StaleTime, 23, 24)}

\* DataPortal.on_data: the price map after an arrival (any other payload
\* raises and leaves the map).
DataPortal_on_data(map, data) ==
    IF data.kind = "Bar"
    THEN (data.code :> Price(data.code, data.close_price, data.visible_time)) @@ map
    ELSE IF data.kind = "Tick"
    THEN (data.code :> Price(data.code, data.price, data.visible_time)) @@ map
    ELSE map

\* DataPortal.current_price with a mock price table, lines 334-336: KeyError
\* when the table lacks the instant or the instant's entry lacks a code.
current_price_mocked(table, cs, current_time) ==
    IF current_time \notin DOMAIN table
    THEN [raised |-> TRUE, cp |-> <<>>]
    ELSE IF \E i \in 1..Len(cs) : cs[i] \notin DOMAIN table[current_time]
    THEN [raised |-> TRUE, cp |-> <<>>]
    ELSE [raised |-> FALSE,
          cp |-> [c \in {cs[i] : i \in 1..Len(cs)} |-> table[current_time][c]]]

PriceInit ==
    /\ \/ /\ is_backtest \in BOOLEAN
          /\ mocked_current_price = <<>>
          /\ current_price_map \in PriceMaps
       \/ /\ is_backtest = FALSE
          /\ mocked_current_price \in MockTables
          /\ current_price_map = <<>>
    /\ codes \in CodeLists
    /\ g_visible_time = AskedTime
    /\ g_pc = "idle" /\ retry_limit = 0 /\ count = 0 /\ g_i = 0 /\ cp = <<>>
    /\ res = None /\ lookups = 0 /\ warnings = 0 /\ seen = {} /\ price_arrivals = 0
    /\ RuleIdle
    /\ BacktestIdle
    /\ LiveIdle
    /\ UnitIdle

priceFrame == <<ruleVars, btVars, liveVars, unitVars, is_backtest, mocked_current_price,
                codes, g_visible_time>>

\* A mutant of retry_limit_of: the limit is not lowered in a backtest.
retry_limit_always_live(backtest) == RetryLimitLive

\* get_recent_price_after, lines 376-378
retry_limit_of(backtest) == IF backtest THEN RetryLimitBacktest ELSE RetryLimitLive

\* A mutant of price_result: the observation instants are not compared.
price_result_any_time(prices, cs, t) ==
    IF Cardinality(DOMAIN prices) = Len(cs)
    THEN Some(IF Len(cs) = 1 THEN prices[cs[1]].price
              ELSE [c \in DOMAIN prices |-> prices[c].price])
    ELSE None

\* get_recent_price_after, lines 383-390: what an attempt returns on the
\* prices current_price gave it (None: it returns nothing and the loop goes on).
price_result(prices, cs, t) ==
    IF /\ Cardinality(DOMAIN prices) = Len(cs)
       /\ \A i \in 1..Len(cs) : prices[cs[i]].time >= t
    THEN Some(IF Len(cs) = 1 THEN prices[cs[1]].price
              ELSE [c \in DOMAIN prices |-> prices[c].price])
    ELSE None

\* get_recent_price_after, lines 376-379
get_recent_price_after ==
    /\ g_pc = "idle"
    /\ retry_limit' = retry_limit_of(is_backtest)
    /\ count' = 0
    /\ g_pc' = "top"
    /\ UNCHANGED <<priceFrame, current_price_map, g_i, cp, res, lookups, warnings,
                   seen, price_arrivals>>

\* get_recent_price_after, lines 380-382: the loop's test holds and
\* current_price is called; with a mock table it returns or raises at once.
attempt_begin ==
    /\ g_pc = "top" /\ count < retry_limit
    /\ lookups' = lookups + 1
    /\ IF mocked_current_price # <<>>
       THEN LET r == current_price_mocked(mocked_current_price, codes, g_visible_time)
            IN  /\ g_pc' = IF r.raised THEN "raised" ELSE "check"
                /\ cp' = r.cp
                /\ seen' = IF g_visible_time \in DOMAIN mocked_current_price
                           THEN {mocked_current_price[g_visible_time][c] :
                                    c \in DOMAIN mocked_current_price[g_visible_time]}
                           ELSE {}
                /\ g_i' = g_i
       ELSE /\ g_pc' = IF Len(codes) = 0 THEN "check" ELSE "lookup"
            /\ cp' = <<>>
            /\ g_i' = 1
            /\ seen' = {current_price_map[c] : c \in DOMAIN current_price_map}
    /\ UNCHANGED <<priceFrame, current_price_map, retry_limit, count, res, warnings,
                   price_arrivals>>

\* DataPortal.current_price, lines 339-341: one code is looked up in the map.
current_price ==
    /\ g_pc = "lookup"
    /\ LET code == codes[g_i]
       IN  cp' = IF code \in DOMAIN current_price_map
                 THEN (code :> current_price_map[code]) @@ cp
                 ELSE cp
    /\ g_i' = g_i + 1
    /\ g_pc' = IF g_i = Len(codes) THEN "check" ELSE "lookup"
    /\ UNCHANGED <<priceFrame, current_price_map, retry_limit, count, res, lookups,
                   warnings, seen, price_arrivals>>

\* get_recent_price_after, lines 383-394: the attempt returns the prices, or
\* logs a warning, counts and sleeps.
attempt_end ==
    /\ g_pc = "check"
    /\ LET r == price_result(cp, codes, g_visible_time)
       IN  IF r # None
           THEN /\ res' = r
                /\ g_pc' = "returned"
                /\ UNCHANGED <<warnings, count>>
           ELSE /\ warnings' = warnings + 1
                /\ count' = count + 1
                /\ g_pc' = "sleep"
                /\ UNCHANGED res
    /\ UNCHANGED <<priceFrame, current_price_map, retry_limit, g_i, cp, lookups, seen,
                   price_arrivals>>

\* time.sleep(1) returns.
attempt_slept ==
    /\ g_pc = "sleep"
    /\ g_pc' = "top"
    /\ UNCHANGED <<priceFrame, current_price_map, retry_limit, count, g_i, cp, res,
                   lookups, warnings, seen, price_arrivals>>

\* get_recent_price_after, line 380: the loop's test fails and the function
\* ends without a return statement.
attempts_exhausted ==
    /\ g_pc = "top" /\ count >= retry_limit
    /\ g_pc' = "returned"
    /\ res' = None
    /\ UNCHANGED <<priceFrame, current_price_map, retry_limit, count, g_i, cp,
                   lookups, warnings, seen, price_arrivals>>

\* In a live run the DataPortal's feed calls DataPortal.on_data on its own
\* thread while the call is in progress.
price_arrival(data) ==
    /\ ~is_backtest
    /\ g_pc \in {"top", "lookup", "check", "sleep"}
    /\ price_arrivals < MaxPriceArrivals
    /\ price_arrivals' = price_arrivals + 1
    /\ current_price_map' = DataPortal_on_data(current_price_map, data)
    /\ seen' = IF mocked_current_price # <<>> THEN seen
               ELSE seen \cup {DataPortal_on_data(current_price_map, data)[data.code]}
    /\ UNCHANGED <<priceFrame, g_pc, retry_limit, count, g_i, cp, res, lookups, warnings>>

\* The steps of the thread that called get_recent_price_after.
get_recent_price_after_steps ==
    \/ get_recent_price_after
    \/ attempt_begin
    \/ current_price
    \/ attempt_end
    \/ attempt_slept
    \/ attempts_exhausted

PriceNext ==
    \/ get_recent_price_after
    \/ attempt_begin
    \/ current_price
    \/ attempt_end
    \/ attempt_slept
    \/ attempts_exhausted
    \/ \E data \in PriceArrivals : price_arrival(data)

SpecPrice == PriceInit /\ [][PriceNext]_vars

\* The calling thread runs on: time.sleep(1) returns and the loop goes on.
SpecPriceFair == SpecPrice /\ WF_vars(get_recent_price_after_steps)

\* ---- properties of get_recent_price_after
\* The price the result gives for a code.
ReturnedPrice(code) == IF Len(codes) = 1 THEN res[1] ELSE res[1][code]

\* C11: a call that returned a value returned, for every requested code, the
\* price of a Price the DataPortal held for that code during the attempt that
\* returned, observed at or after visible_time; with one requested code the
\* value is that price, otherwise a mapping over exactly the requested codes.
C11_FreshPricesOnly ==
    (g_pc = "returned" /\ res # None) =>
        /\ \A i \in 1..Len(codes) :
              \E p \in seen : /\ p.code = codes[i]
                              /\ p.time >= g_visible_time
                              /\ ReturnedPrice(codes[i]) = p.price
        /\ Len(codes) # 1 => DOMAIN res[1] = {codes[i] : i \in 1..Len(codes)}
        /\ Len(codes) = 1 => res[1] \in {p.price : p \in seen}

\* A live call for two codes that failed an attempt, returned after an
\* arrival, and whose map holds a stale price for a returned code by then.
C11_Witness ==
    /\ g_pc = "returned" /\ res # None
    /\ Len(codes) = 2
    /\ lookups >= 2
    /\ price_arrivals >= 1
    /\ \E c \in DOMAIN current_price_map : current_price_map[c].time < g_visible_time

\* The retry limit of the mode.
LimitOfMode == IF is_backtest THEN RetryLimitBacktest ELSE RetryLimitLive

MockLookupFails ==
    /\ mocked_current_price # <<>>
    /\ \/ g_visible_time \notin DOMAIN mocked_current_price
       \/ \E i \in 1..Len(codes) :
             codes[i] \notin DOMAIN mocked_current_price[g_visible_time]

C12_Safety ==
    /\ lookups <= LimitOfMode
    /\ warnings = count
    /\ g_pc = "raised" =>
          (MockLookupFails /\ lookups = 1 /\ warnings = 0 /\ res = None)
    /\ (g_pc = "returned" /\ is_backtest) => lookups = 1
    /\ (g_pc = "returned" /\ res = None)
          => (lookups = LimitOfMode /\ warnings = LimitOfMode)

RegisterIds == {"strat_bar", "strat_bar_twin", "net_value"}
RegisterCallbacks == {"on_bar", "on_other"}

RegisterInit ==
    /\ pc = "register" /\ strategy = <<>> /\ start = 0 /\ end = 0 /\ store = <<>>
    /\ event_definitions = <<>> /\ callback_map = <<>>
    /\ next_time_of = [id \in TimeDefIds |-> None]
    /\ events = <<>> /\ event = None /\ produced = <<>> /\ dispatched = <<>>
    /\ errors = 0 /\ saved = 0
    /\ RuleIdle
    /\ LiveIdle
    /\ PriceIdle
    /\ UnitIdle

\* A client calls Engine.register_event.
call_register_event(event_definition, callback) ==
    /\ pc = "register"
    /\ LET before == [raised |-> FALSE, callback_map |-> callback_map,
                      event_definitions |-> event_definitions]
           after == register_event(before, event_definition, callback)
       IN  /\ callback_map' = after.callback_map
           /\ event_definitions' = after.event_definitions
           /\ reg_last' = Some([event_definition |-> event_definition,
                                callback |-> callback,
                                callback_map |-> callback_map,
                                event_definitions |-> event_definitions,
                                raised |-> after.raised])
    /\ UNCHANGED <<pc, strategy, start, end, store, next_time_of, events, event,
                   produced, dispatched, errors, saved>>
    /\ UNCHANGED <<ruleVars, liveVars, priceVars, line_inserted, line_popped,
                   line_last_pop, generated, mocked_events, m_i, returned>>

RegisterNext ==
    \E event_definition \in RegisterIds, callback \in RegisterCallbacks :
        call_register_event(event_definition, callback)

SpecRegister == RegisterInit /\ [][RegisterNext]_vars

\* C14: a register_event call with a definition that is registered fails and
\* leaves the handler map and the definition list as they were; a call with a
\* definition that is not registered succeeds, also when a registered
\* definition has the same field values: the handler is mapped and the
\* definition appended once.
C14_DuplicateRegistrationFails ==
    /\ reg_last # None =>
          LET c == reg_last[1]
          IN  IF c.event_definition \in DOMAIN c.callback_map
              THEN /\ c.raised
                   /\ callback_map = c.callback_map
                   /\ event_definitions = c.event_definitions
              ELSE /\ ~c.raised
                   /\ callback_map = (c.event_definition :> c.callback) @@ c.callback_map
                   /\ event_definitions = Append(c.event_definitions, c.event_definition)
    /\ DOMAIN callback_map = {event_definitions[k] : k \in 1..Len(event_definitions)}
    /\ \A i, j \in 1..Len(event_definitions) :
          i # j => event_definitions[i] # event_definitions[j]

\* A failed call with another handler for a registered definition, made after
\* the two definitions with equal field values were both registered.
C14_Witness ==
    /\ reg_last # None
    /\ reg_last[1].raised
    /\ reg_last[1].callback # callback_map[reg_last[1].event_definition]
    /\ {"strat_bar", "strat_bar_twin"} \subseteq DOMAIN callback_map
    /\ Def("strat_bar") = Def("strat_bar_twin")

\* ------------------------------------------------------------ EventLine alone
\* Events handed to an EventLine over its life.
MaxInserted == 4

\* The events add_all is called with: of three definitions (two data
\* definitions of different orders and a time definition), at two instants.
LineDefinitions == {"price", "strat_bar", "net_value"}
LineInstants == {0, Minute}
LineEvents ==
    {Event(ed, t, EmptyData) : ed \in LineDefinitions, t \in LineInstants}
\* The lists of at most two of them.
LineBatches == {<<>>} \cup {<<e>> : e \in LineEvents}
                 \cup {<<e1, e2>> : e1 \in LineEvents, e2 \in LineEvents}

EventLineInit ==
    /\ pc = "line" /\ strategy = <<>> /\ start = 0 /\ end = 0 /\ store = <<>>
    /\ event_definitions = <<>> /\ callback_map = <<>>
    /\ next_time_of = [id \in TimeDefIds |-> None]
    /\ events = <<>> /\ event = None /\ produced = <<>> /\ dispatched = <<>>
    /\ errors = 0 /\ saved = 0
    /\ RuleIdle
    /\ LiveIdle
    /\ PriceIdle
    /\ UnitIdle

\* A client calls EventLine.add_all; each Event is an object of its own, named
\* by its place among the events inserted.
call_add_all(batch) ==
    /\ pc = "line"
    /\ Len(line_inserted) + Len(batch) <= MaxInserted
    /\ LET new_events == [k \in 1..Len(batch) |->
                             [batch[k] EXCEPT !.seq = Len(line_inserted) + k]]
       IN  /\ events' = add_all(events, new_events)
           /\ line_inserted' = line_inserted \o new_events
    /\ UNCHANGED <<pc, strategy, start, end, store, event_definitions, callback_map,
                   next_time_of, event, produced, dispatched, errors, saved>>
    /\ UNCHANGED <<ruleVars, liveVars, priceVars, reg_last, line_popped,
                   line_last_pop, generated, mocked_events, m_i, returned>>

\* A client calls EventLine.pop_event.
call_pop_event ==
    /\ pc = "line"
    /\ LET r == pop_event(events)
       IN  /\ events' = r.events
           /\ line_last_pop' = Some(r.event)
           /\ line_popped' = IF r.event = None THEN line_popped
                             ELSE Append(line_popped, r.event[1])
    /\ UNCHANGED <<pc, strategy, start, end, store, event_definitions, callback_map,
                   next_time_of, event, produced, dispatched, errors, saved>>
    /\ UNCHANGED <<ruleVars, liveVars, priceVars, reg_last, line_inserted,
                   generated, mocked_events, m_i, returned>>

EventLineNext ==
    \/ \E batch \in LineBatches : call_add_all(batch)
    \/ call_pop_event

SpecEventLine == EventLineInit /\ [][EventLineNext]_vars

\* ---- properties of EventLine
\* Neither event is less than the other.
EqualRanked(e1, e2) == ~Event_lt(e1, e2) /\ ~Event_lt(e2, e1)

\* The buffer is sorted, equal-ranked events in insertion order; the buffer
\* and the popped events together are the inserted events, each once.
C20_Buffer ==
    /\ \A i, j \in 1..Len(events) :
          i < j => /\ ~Event_lt(events[j], events[i])
                   /\ EqualRanked(events[i], events[j]) => events[i].seq < events[j].seq
    /\ Len(events) + Len(line_popped) = Len(line_inserted)
    /\ \A k \in 1..Len(line_inserted) :
          Cardinality({i \in 1..Len(events) : events[i] = line_inserted[k]})
            + Cardinality({i \in 1..Len(line_popped) : line_popped[i] = line_inserted[k]}) = 1

\* A pop_event call on a buffer that holds events returns its first event, than
\* which no buffered event is less, and leaves the others in their order; on
\* an empty buffer it returns None and leaves the buffer empty.
C20_Pop ==
    (line_last_pop' # line_last_pop \/ line_popped' # line_popped) =>
        IF events = <<>>
        THEN line_last_pop' = Some(None) /\ events' = <<>> /\ line_popped' = line_popped
        ELSE /\ line_last_pop' = Some(Some(events[1]))
             /\ line_popped' = Append(line_popped, events[1])
             /\ events' = Tail(events)
             /\ \A k \in 1..Len(events) : ~Event_lt(events[k], events[1])

\* C20: after any add_all and pop_event calls the buffer is sorted by Event
\* order with equal-ranked events in insertion order; pop_event returns and
\* removes the earliest buffered event, or returns None on an empty buffer and
\* changes nothing; every inserted event is returned at most once and none is
\* lost.
C20_EventLineSortedStable == []C20_Buffer /\ [][C20_Pop]_vars

\* After a pop, a buffer in which a later inserted event stands before an
\* earlier one, and which holds two equal-ranked events.
C20_Witness ==
    /\ pc = "line"
    /\ Len(line_popped) >= 1
    /\ Len(events) >= 2
    /\ events[1].seq > events[2].seq
    /\ \E i, j \in 1..Len(events) :
          i < j /\ EqualRanked(events[i], events[j])

\* ------------------------------------- Engine.run with a MockedEventProducer
\* Events the mocked generator returns in a run.
MaxMocked == 3

\* What a strategy's do_initialize registers in a live-test run.
MockedStrategies == {<<>>, <<"strat_tick">>, <<"strat_settle", "strat_tick">>}
MockedInstants == {20 * Minute, 55 * Minute}

\* What the generator can put in the list it returns for a definition: events
\* of that definition, and an event of an EventDefinition object of its own
\* making, which the engine does not know.
GeneratedFor(ed) ==
    {Event(ed, t, EmptyData) : t \in MockedInstants}
        \cup {Event("strat_open", 20 * Minute, EmptyData)}
GeneratedLists(ed) ==
    {<<>>} \cup {<<e>> : e \in GeneratedFor(ed)}
           \cup {<<e1, e2>> : e1 \in GeneratedFor(ed), e2 \in GeneratedFor(ed)}

RECURSIVE extend_all(_, _, _)
\* MockedEventProducer.start, lines 124-126
extend_all(eds, mocked_event_generator, i) ==
    IF i > Len(eds) THEN <<>>
    ELSE mocked_event_generator[eds[i]] \o extend_all(eds, mocked_event_generator, i + 1)

\* A mutant of mocked_sorted: the list is left as collected.
mocked_unsorted(mocked) == mocked

\* MockedEventProducer.start, line 128
mocked_sorted(mocked) == sorted(mocked)

\* A mutant of Engine_on_event: an unknown definition gets the net-value handler.
Engine_on_event_default(cbs, ev) ==
    IF ev.event_definition \in DOMAIN cbs
    THEN [raised |-> FALSE, callback |-> Some(callback_for(cbs, ev.event_definition))]
    ELSE [raised |-> FALSE, callback |-> Some("calc_net_value")]

\* Engine.on_event, line 438: the handler looked up, KeyError when the
\* definition is not a key of callback_map.
Engine_on_event(cbs, ev) ==
    IF ev.event_definition \in DOMAIN cbs
    THEN [raised |-> FALSE, callback |-> Some(callback_for(cbs, ev.event_definition))]
    ELSE [raised |-> TRUE, callback |-> None]

MockedInit ==
    /\ pc = "mock_idle"
    /\ strategy \in MockedStrategies
    /\ start = 0 /\ end = 0 /\ store = <<>>
    /\ event_definitions = <<>> /\ callback_map = <<>>
    /\ next_time_of = [id \in TimeDefIds |-> None]
    /\ events = <<>> /\ event = None /\ produced = <<>> /\ dispatched = <<>>
    /\ errors = 0 /\ saved = 0
    /\ RuleIdle
    /\ LiveIdle
    /\ PriceIdle
    /\ UnitIdle

mockedFrame == <<strategy, start, end, store, next_time_of, events, event, produced,
                 errors, saved, ruleVars, priceVars, clock, ts_type_name_to_ed,
                 subscriptions, dedup, t_pc, t_now, t_i, evaluated, poll_errors,
                 feed, delivered, reg_last, line_inserted, line_popped, line_last_pop,
                 returned>>

\* Engine.run with a mocked generator, lines 491-509, and
\* MockedEventProducer.start up to its for loop, lines 124-128.
run_mocked(mocked_event_generator) ==
    /\ pc = "mock_idle"
    /\ LET e1 == register_event(NewEngine, "net_value", HandlerOf("net_value"))
           e2 == register_all(e1, strategy, 1)
           collected == extend_all(e2.event_definitions, mocked_event_generator, 1)
       IN  /\ DOMAIN mocked_event_generator
                = {e2.event_definitions[k] : k \in 1..Len(e2.event_definitions)}
           /\ Len(collected) <= MaxMocked
           /\ event_definitions' = e2.event_definitions
           /\ callback_map' = e2.callback_map
           /\ generated' = Numbered(collected)
           /\ mocked_events' = mocked_sorted(Numbered(collected))
           /\ m_i' = 1
           /\ pc' = "mock_push"
    /\ UNCHANGED <<mockedFrame, dispatched, received>>

\* MockedEventProducer.start, lines 129-130, and Engine.on_event: the next
\* event is pushed; its handler is looked up, called, and returns.
mocked_on_event ==
    /\ pc = "mock_push" /\ m_i <= Len(mocked_events)
    /\ LET ev == mocked_events[m_i]
           r == Engine_on_event(callback_map, ev)
       IN  /\ received' = Append(received, ev)
           /\ IF r.raised
              THEN /\ pc' = "mock_raised"
                   /\ UNCHANGED <<dispatched, m_i>>
              ELSE /\ dispatched' = Append(dispatched,
                          [callback |-> r.callback[1], event |-> ev])
                   /\ m_i' = m_i + 1
                   /\ pc' = pc
    /\ UNCHANGED <<mockedFrame, event_definitions, callback_map, generated, mocked_events>>

\* The same, the handler raising: nothing catches it, start is left.
mocked_on_event_handler_raises ==
    /\ pc = "mock_push" /\ m_i <= Len(mocked_events)
    /\ LET ev == mocked_events[m_i]
           r == Engine_on_event(callback_map, ev)
       IN  /\ ~r.raised
           /\ received' = Append(received, ev)
           /\ dispatched' = Append(dispatched, [callback |-> r.callback[1], event |-> ev])
           /\ pc' = "mock_raised"
    /\ UNCHANGED <<mockedFrame, event_definitions, callback_map, generated,
                   mocked_events, m_i>>

\* MockedEventProducer.start: the for loop is over, start returns.
mocked_start_returns ==
    /\ pc = "mock_push" /\ m_i > Len(mocked_events)
    /\ pc' = "mock_returned"
    /\ UNCHANGED <<mockedFrame, event_definitions, callback_map, generated,
                   mocked_events, m_i, dispatched, received>>

\* The generators of a run: a list for each definition the engine will hold
\* (the net-value definition, then the strategy's).
RunDefinitions == <<"net_value">> \o strategy
GeneratedListsAt(k) ==
    IF k <= Len(RunDefinitions) THEN GeneratedLists(RunDefinitions[k]) ELSE {<<>>}
GeneratorOf(lists) ==
    [ed \in {RunDefinitions[k] : k \in 1..Len(RunDefinitions)} |->
        lists[CHOOSE k \in 1..Len(RunDefinitions) : RunDefinitions[k] = ed]]

MockedNext ==
    \/ /\ pc = "mock_idle"
       /\ \E l1 \in GeneratedListsAt(1), l2 \in GeneratedListsAt(2), l3 \in GeneratedListsAt(3) :
             run_mocked(GeneratorOf(<<l1, l2, l3>>))
    \/ mocked_on_event
    \/ mocked_on_event_handler_raises
    \/ mocked_start_returns

SpecMocked == MockedInit /\ [][MockedNext]_vars

\* How many times the subscriber has received a generated event.
TimesReceived(g) == Cardinality({i \in 1..Len(received) : received[i] = g})

\* C18: in a run with a mocked producer the subscriber receives generated
\* events only, each at most once, in non-decreasing Event order, no event
\* still to be pushed being less than one already received; every received
\* event but one whose push raised has had its handler called, in the same
\* order; and when start has returned every generated event has been received
\* exactly once.
C18_MockedSortedOnce ==
    pc \in {"mock_push", "mock_returned", "mock_raised"} =>
        /\ \A i, j \in 1..Len(received) : i < j => ~Event_lt(received[j], received[i])
        /\ \A i \in 1..Len(received) :
              \E k \in 1..Len(generated) : generated[k] = received[i]
        /\ \A k \in 1..Len(generated) :
              /\ TimesReceived(generated[k]) <= 1
              /\ TimesReceived(generated[k]) = 0 =>
                    \A i \in 1..Len(received) : ~Event_lt(generated[k], received[i])
        /\ Len(dispatched) \in {Len(received), Len(received) - 1}
        /\ Len(dispatched) < Len(received) => pc = "mock_raised"
        /\ \A i \in 1..Len(dispatched) : dispatched[i].event = received[i]
        /\ pc = "mock_returned" =>
              /\ Len(received) = Len(generated)
              /\ \A k \in 1..Len(generated) : TimesReceived(generated[k]) = 1

\* start has returned after pushing three events, which the generator had
\* returned in another order than the one they were pushed in.
C18_Witness ==
    /\ pc = "mock_returned"
    /\ Len(received) = 3
    /\ received # generated
    /\ \E i \in 1..2 : Event_lt(received[i], received[i + 1])

\* ------------------------------------------- dispatch, backtest and live-test
\* Both ways an Event reaches a handler: the backtest loop and Engine.on_event.
DispatchInit == BacktestInit \/ MockedInit
DispatchNext == BacktestNext \/ MockedNext
SpecDispatch == DispatchInit /\ [][DispatchNext]_vars

Registered(ev) == ev.event_definition \in DOMAIN callback_map

\* Every handler call was for a registered definition and went to its handler;
\* an event of an unregistered definition pushed to on_event is the last one
\* received, with no handler call for it; the backtest expansion and line hold
\* events of registered definitions only.
C15_Safety ==
    /\ \A i \in 1..Len(dispatched) :
          /\ Registered(dispatched[i].event)
          /\ dispatched[i].callback
                = callback_for(callback_map, dispatched[i].event.event_definition)
    /\ pc \in {"mock_push", "mock_returned", "mock_raised"} =>
          \A i \in 1..Len(received) :
              ~Registered(received[i]) =>
                  /\ pc = "mock_raised"
                  /\ i = Len(received)
                  /\ Len(dispatched) = i - 1
    /\ pc \in {"loop", "done", "failed"} =>
          /\ \A i \in 1..Len(produced) : Registered(produced[i])
          /\ \A i \in 1..Len(events) : Registered(events[i])
          /\ event # None => Registered(event[1])

\* A step taken with an event of an unregistered definition at hand fails and
\* calls no handler, in the backtest loop and in on_event.
C15_Step ==
    /\ (pc = "loop" /\ event # None /\ ~Registered(event[1])) =>
          (pc' = "failed" /\ dispatched' = dispatched)
    /\ (pc = "mock_push" /\ m_i <= Len(mocked_events) /\ ~Registered(mocked_events[m_i])) =>
          (pc' = "mock_raised" /\ dispatched' = dispatched)

\* C15: dispatching an event whose definition was never registered fails
\* without a handler call, through Engine.on_event and in the backtest loop,
\* and a backtest run never gets there: every event of the expansion carries
\* a registered definition.
C15_UnregisteredDispatchFails == []C15_Safety /\ [][C15_Step]_vars

\* on_event has failed on an event of an unregistered definition, after
\* handler calls for the events before it.
C15_Witness ==
    /\ pc = "mock_raised"
    /\ Len(received) >= 2
    /\ ~Registered(received[Len(received)])
    /\ Len(dispatched) = Len(received) - 1

\* A backtest run dispatching events of a strategy's definition from its line.
C15_BacktestDispatching ==
    /\ pc = "loop"
    /\ Len(dispatched) >= 1
    /\ event # None
    /\ \E k \in 1..Len(strategy) : event[1].event_definition = strategy[k]

\* ------------------------------- EventProducer.history_events called directly
\* Calls of history_events made on one producer.
MaxCalls == 2

\* A producer over the definitions a backtest engine holds, its rules' caches
\* as Rule.__init__ leaves them, no call made yet.
ExpandInit ==
    /\ pc = "expand"
    /\ strategy \in Strategies
    /\ start \in Starts
    /\ end \in Ends
    /\ store \in Stores
    /\ LET e1 == register_event(NewEngine, "price", HandlerOf("price"))
           e2 == register_all(e1, strategy, 1)
           e3 == register_event(e2, "net_value", HandlerOf("net_value"))
           e4 == register_event(e3, "match", HandlerOf("match"))
       IN  /\ event_definitions = e4.event_definitions
           /\ callback_map = e4.callback_map
    /\ next_time_of = [id \in TimeDefIds |-> None]
    /\ events = <<>> /\ event = None /\ produced = <<>> /\ dispatched = <<>>
    /\ errors = 0 /\ saved = 0
    /\ RuleIdle
    /\ LiveIdle
    /\ PriceIdle
    /\ UnitIdle

\* EventProducer.history_events, lines 149-215, called with the same scope,
\* start and end: the rules keep the _next_time the call before left.
call_history_events ==
    /\ pc = "expand" /\ Len(returned) < MaxCalls
    /\ LET he == history_events(event_definitions, next_time_of, store, start, end)
       IN  /\ next_time_of' = he.caches
           /\ returned' = Append(returned, [raised |-> he.raised, events |-> he.events])
           /\ produced' = IF he.raised THEN produced ELSE he.events
    /\ UNCHANGED <<pc, strategy, start, end, store, event_definitions, callback_map,
                   events, event, dispatched, errors, saved>>
    /\ UNCHANGED <<ruleVars, liveVars, priceVars, reg_last, line_inserted, line_popped,
                   line_last_pop, generated, mocked_events, m_i>>

ExpandNext == call_history_events

SpecExpand == ExpandInit /\ [][ExpandNext]_vars

\* The (definition, visible time) pairs of a returned list, in its order.
Pairs(evs) == [i \in 1..Len(evs) |-> <<evs[i].event_definition, evs[i].visible_time>>]

\* C21: two history_events calls with the same scope, start and end on the same
\* producer that both return, return the same list of (definition, visible
\* time) pairs.
C21_ExpansionRepeatable ==
    (Len(returned) >= 2 /\ ~returned[1].raised /\ ~returned[2].raised) =>
        Pairs(returned[1].events) = Pairs(returned[2].events)

\* ------------------------------------------- the price map in a backtest run
\* Every price of the DataPortal's map was observed at or before the event at
\* the loop's head, the one the next handler call is for, and at or before the
\* event of the latest handler call.
C22_AtDispatch ==
    pc \in {"loop", "done"} =>
        \A code \in DOMAIN current_price_map :
            /\ event # None => current_price_map[code].time <= event[1].visible_time
            /\ dispatched # <<>> =>
                  current_price_map[code].time
                      <= dispatched[Len(dispatched)].event.visible_time

\* A step keeps every code of the map and does not move its instant back.
C22_Monotone ==
    \A code \in DOMAIN current_price_map :
        /\ code \in DOMAIN current_price_map'
        /\ current_price_map'[code].time >= current_price_map[code].time

\* C22: in a backtest run, whenever a handler is called for an event with
\* visible time t every price of the DataPortal's map has an observation
\* instant at or before t, and the instant recorded for a code never decreases.
C22_PriceTracksSimulatedTime == []C22_AtDispatch /\ [][C22_Monotone]_vars

\* The map holds a price written by the second of two price updates at
\* different instants (one from a market-open tick, whose payload carries a
\* later instant than the event), and a strategy's handler has been called.
C22_Witness ==
    /\ pc = "loop"
    /\ "A" \in DOMAIN current_price_map
    /\ \E i, j \in 1..Len(dispatched) :
          /\ i < j
          /\ dispatched[i].callback = "set_current_price"
          /\ dispatched[j].callback = "set_current_price"
          /\ dispatched[i].event.data.kind = "Tick"
          /\ dispatched[i].event.data.visible_time > dispatched[i].event.visible_time
          /\ dispatched[i].event.visible_time < dispatched[j].event.visible_time
          /\ current_price_map["A"].time = dispatched[j].event.visible_time
    /\ \E i \in 1..Len(dispatched) :
          \E k \in 1..Len(strategy) : dispatched[i].event.event_definition = strategy[k]

====
